---- MODULE Spec2Model ----
(***************************************************************************)
(* Model of message-for-me (src/main.go, settings in src/flake.nix).       *)
(*                                                                         *)
(* run() checks the credential, opens the last-sent-authors store and      *)
(* starts two tasks in an errgroup: the control loop (a select over the    *)
(* context, the startup timer and four event channels) and the gateway     *)
(* connection.  Each select case is one action, with everything the        *)
(* handler does.  The gateway, the session cache, the message API and the  *)
(* store engine are external: their outcomes are drawn with \E.            *)
(*                                                                         *)
(* Time is counted in seconds from the moment the loop creates its         *)
(* startup timer.                                                          *)
(*                                                                         *)
(* Note on the event channels: run() registers only msgCh with the         *)
(* session (line 139); readyCh, readySupplementalCh and guildCh have no    *)
(* sender in the source.  The model lets the connected gateway deliver     *)
(* those three events, so that the cases of lines 158-175 are exercised.   *)
(***************************************************************************)
EXTENDS Integers, Sequences, FiniteSets, TLC

VARIABLES
    token,      \* $DISCORD_TOKEN: "" when unset
    pc,         \* position of run(): "start", "open", "spawn", "wait", "exit"
    exitCode,   \* value returned by run(); NoExit until it returns
    errLog,     \* the slog.Error record run() itself wrote last ("" for none)
    storeState, \* the store handle: "unopened", "open", "failed"
    ctx,        \* the errgroup context: "live", "signal" (parent cancelled), "group"
    groupErr,   \* first non-nil error returned by a task of the errgroup
    loop,       \* control loop: "idle", "select", or how it returned
    conn,       \* session.Connect: "idle", "connected", or how it returned
    bot,        \* botState of the control loop
    subs,       \* calls made by trySubscribe: MemberState.Subscribe, AddSyncHandler
    store,      \* lastSentAuthors: author -> message id, NoMessage when absent
    sent,       \* messages sent to the target channel, by id: whose announce it
                \* was and whether its id was then stored
    now,        \* the clock
    ticks,      \* number of clock steps taken
    last,       \* what the latest loop iteration received and did
    probe       \* parseCommand on its own: a message and what was returned for it

vars == <<token, pc, exitCode, errLog, storeState, ctx, groupErr, loop, conn,
          bot, subs, store, sent, now, ticks, last, probe>>

-----------------------------------------------------------------------------
(* Bounds of the model *)

MaxTicks == 2

-----------------------------------------------------------------------------
(* Program constants *)

Second == 1
Minute == 60 * Second
Hour == 60 * Minute

\* settings.MinAnnounceTimeGap
MinAnnounceTimeGap == 4 * Hour

\* time.After(10 * time.Second)
StartupTimeout == 10 * Second

\* settings.TargetChannelID's guild, and some other guild
TargetGuild == "gTarget"
OtherGuild == "gOther"
NoGuild == "g0"
Guilds == {TargetGuild, OtherGuild}

\* settings.AllowedRoleIDs, and a role outside it
DevBoardRole == "rDevBoard"
OtherRole == "rOther"
AllowedRoleIDs == {DevBoardRole}
Roles == {DevBoardRole, OtherRole}

\* user ids are single characters so that Mention() can spell them
BotID == "7"
NoUser == "0"
Authors == {"a", "b"}

NoMessage == 0
NoExit == -1

\* the zero time.Time of a fresh botState
ZeroTime == -1
\* time.Since saturates at the largest Duration
MaxDuration == 2147483647

\* the clock advances in steps that land on both sides of the rate limit
TickSteps == {Minute, MinAnnounceTimeGap - Minute}

-----------------------------------------------------------------------------
(* Strings, as sequences of characters *)

Space == {" ", "\t", "\n", "\r"}

UpperCase == <<"A", "C", "D", "E", "I", "N", "O", "T", "U", "X">>
LowerCase == <<"a", "c", "d", "e", "i", "n", "o", "t", "u", "x">>

ToLowerChar(c) ==
    IF \E i \in 1..Len(UpperCase) : UpperCase[i] = c
    THEN LowerCase[CHOOSE i \in 1..Len(UpperCase) : UpperCase[i] = c]
    ELSE c

\* strings.ToLower
ToLower(s) == [i \in 1..Len(s) |-> ToLowerChar(s[i])]

\* strings.HasPrefix
HasPrefix(s, p) == Len(s) >= Len(p) /\ SubSeq(s, 1, Len(p)) = p

\* strings.TrimPrefix
TrimPrefix(s, p) == IF HasPrefix(s, p) THEN SubSeq(s, Len(p) + 1, Len(s)) ELSE s

\* strings.TrimSpace
TrimSpace(s) ==
    LET keep == {i \in 1..Len(s) : s[i] \notin Space}
    IN  IF keep = {} THEN <<>>
        ELSE SubSeq(s, CHOOSE i \in keep : \A j \in keep : i <= j,
                       CHOOSE i \in keep : \A j \in keep : i >= j)

\* strings.Cut(s, "\n")
Cut(s) ==
    LET hits == {i \in 1..Len(s) : s[i] = "\n"}
    IN  IF hits = {} THEN [before |-> s, after |-> <<>>, found |-> FALSE]
        ELSE LET i == CHOOSE k \in hits : \A j \in hits : k <= j
             IN  [before |-> SubSeq(s, 1, i - 1),
                  after |-> SubSeq(s, i + 1, Len(s)),
                  found |-> TRUE]

\* discord.UserID.Mention
Mention(id) == <<"<", "@", id, ">">>

announce == <<"a", "n", "n", "o", "u", "n", "c", "e">>
edit == <<"e", "d", "i", "t">>

Contents ==
    { Mention(BotID) \o <<" ">> \o announce \o <<"\n", "x">>,
      Mention(BotID) \o <<" ", "A", "n", "n", "O", "U", "N", "C", "E", " ", "\n", "x">>,
      Mention(BotID) \o <<" ">> \o edit \o <<"\n", "x", "\n", "y">>,
      Mention(BotID) \o <<"E", "D", "I", "T", "\n", " ">>,
      Mention(BotID) \o <<" ", "d", "o", "\n", "x">>,
      Mention(BotID) \o <<" ">> \o announce,
      Mention(BotID) \o <<" ", "\n", "x">>,
      Mention(BotID) \o <<" ">> \o announce \o <<"\n">>,
      <<"x", " ">> \o Mention(BotID) \o <<" ">> \o announce \o <<"\n", "x">>,
      Mention(NoUser) \o <<" ">> \o announce \o <<"\n", "x">> }

\* gateway.MessageCreateEvent, the fields the program reads; mentions is the
\* answer of the session's MessageMentions for this message
AllMessages ==
    [author : Authors, member : BOOLEAN, guild : Guilds, mentions : BOOLEAN,
     roles : SUBSET Roles, content : Contents]

\* the messages the gateway delivers to the loop: every content from an
\* authorized member, and every combination of the other fields around a
\* well-formed announce
Messages ==
    {m \in AllMessages :
        \/ m.member /\ m.guild = TargetGuild /\ m.mentions /\ m.roles = {DevBoardRole}
        \/ m.content = Mention(BotID) \o <<" ">> \o announce \o <<"\n", "x">>}

\* further contents for parseCommand on its own: the same headers in another
\* letter case, a body in another letter case, a body with spaces around it
ParseContents ==
    Contents \cup
    { Mention(BotID) \o <<" ", "A", "N", "N", "O", "U", "N", "C", "E", "\n", "x">>,
      Mention(BotID) \o <<" ", "E", "d", "i", "T", "\n", "x", "\n", "y">>,
      Mention(BotID) \o <<" ", "D", "O", "\n", "x">>,
      Mention(BotID) \o <<" ">> \o announce \o <<"\n", "X">>,
      Mention(BotID) \o <<"\t">> \o edit \o <<"\r", "\n", " ", "x", " ">> }

ParseMessages ==
    [author : Authors, member : BOOLEAN, guild : Guilds, mentions : BOOLEAN,
     roles : SUBSET Roles, content : ParseContents]

\* no message, nothing returned yet
NoParse == [at |-> "", Command |-> <<>>, Body |-> <<>>]
NoProbe == [msg |-> "none", out |-> NoParse]

-----------------------------------------------------------------------------
(* parseCommand *)

\* parseCommand without the test of line 331: a message that does not mention
\* the bot goes on to the role and format tests
parseCommandUnmentioned(b, msg) ==
    LET none(at) == [at |-> at, Command |-> <<>>, Body |-> <<>>]
        cut == Cut(msg.content)
        header == cut.before
        body == cut.after
        command == ToLower(TrimSpace(TrimPrefix(header, Mention(b.SelfID))))
    IN  IF ~msg.member \/ msg.guild # b.TargetGuildID THEN none("L327")
        ELSE IF ~(\E r \in msg.roles : r \in AllowedRoleIDs) THEN none("L339")
        ELSE IF ~cut.found THEN none("L348")
        ELSE IF ~HasPrefix(header, Mention(b.SelfID)) THEN none("L353")
        ELSE IF command = <<>> THEN none("L364")
        ELSE IF body = <<>> THEN none("L369")
        ELSE [at |-> "L373", Command |-> command, Body |-> body]

\* parseCommand comparing the command as written, without line 360
parseCommandCaseSensitive(b, msg) ==
    LET none(at) == [at |-> at, Command |-> <<>>, Body |-> <<>>]
        cut == Cut(msg.content)
        header == cut.before
        body == cut.after
        command == TrimSpace(TrimPrefix(header, Mention(b.SelfID)))
    IN  IF ~msg.member \/ msg.guild # b.TargetGuildID THEN none("L327")
        ELSE IF ~msg.mentions THEN none("L332")
        ELSE IF ~(\E r \in msg.roles : r \in AllowedRoleIDs) THEN none("L339")
        ELSE IF ~cut.found THEN none("L348")
        ELSE IF ~HasPrefix(header, Mention(b.SelfID)) THEN none("L353")
        ELSE IF command = <<>> THEN none("L364")
        ELSE IF body = <<>> THEN none("L369")
        ELSE [at |-> "L373", Command |-> command, Body |-> body]

\* parseCommand trimming the body before the test of line 368
parseCommandTrimmedBody(b, msg) ==
    LET none(at) == [at |-> at, Command |-> <<>>, Body |-> <<>>]
        cut == Cut(msg.content)
        header == cut.before
        body == TrimSpace(cut.after)
        command == ToLower(TrimSpace(TrimPrefix(header, Mention(b.SelfID))))
    IN  IF ~msg.member \/ msg.guild # b.TargetGuildID THEN none("L327")
        ELSE IF ~msg.mentions THEN none("L332")
        ELSE IF ~(\E r \in msg.roles : r \in AllowedRoleIDs) THEN none("L339")
        ELSE IF ~cut.found THEN none("L348")
        ELSE IF ~HasPrefix(header, Mention(b.SelfID)) THEN none("L353")
        ELSE IF command = <<>> THEN none("L364")
        ELSE IF body = <<>> THEN none("L369")
        ELSE [at |-> "L373", Command |-> command, Body |-> body]

\* at names the return statement taken; only "L373" returns a command
parseCommand(b, msg) ==
    LET none(at) == [at |-> at, Command |-> <<>>, Body |-> <<>>]
        cut == Cut(msg.content)
        header == cut.before
        body == cut.after
        command == ToLower(TrimSpace(TrimPrefix(header, Mention(b.SelfID))))
    IN  IF ~msg.member \/ msg.guild # b.TargetGuildID THEN none("L327")
        ELSE IF ~msg.mentions THEN none("L332")
        ELSE IF ~(\E r \in msg.roles : r \in AllowedRoleIDs) THEN none("L339")
        ELSE IF ~cut.found THEN none("L348")
        ELSE IF ~HasPrefix(header, Mention(b.SelfID)) THEN none("L353")
        ELSE IF command = <<>> THEN none("L364")
        ELSE IF body = <<>> THEN none("L369")
        ELSE [at |-> "L373", Command |-> command, Body |-> body]

-----------------------------------------------------------------------------
(* The control loop *)

\* what one loop iteration did; the fields a handler does not touch keep
\* these values
NoEffect ==
    [kind |-> "none", author |-> NoUser, at |-> "", cmd |-> <<>>,
     sub |-> "",
     send |-> "none", sendID |-> NoMessage,
     edit |-> "none", editID |-> NoMessage,
     load |-> "none", storeW |-> "none",
     reply |-> "none", replyErr |-> FALSE]

InitBot == [SelfID |-> NoUser, TargetGuildID |-> NoGuild, LastAnnouncedTime |-> ZeroTime]

\* time.Since
Since(t) == IF t = ZeroTime THEN MaxDuration ELSE now - t

\* the rate limit test with <= for <: an announce exactly MinAnnounceTimeGap
\* after the last one is still refused
RateLimitedInclusive(b) == Since(b.LastAnnouncedTime) <= MinAnnounceTimeGap

\* the rate limit test of the announce case
RateLimited(b) == Since(b.LastAnnouncedTime) < MinAnnounceTimeGap

\* the startup timer has a value to deliver
TimerFired == now >= StartupTimeout

\* first non-nil error of the group; the group cancels its context on it
GroupFail(err) ==
    /\ groupErr' = IF groupErr = "none" THEN err ELSE groupErr
    /\ ctx' = IF ctx = "live" THEN "group" ELSE ctx

\* trySubscribe without the IsValid test of line 124: every attempt resolves
\* the channel and subscribes again
TrySubscribeUnguarded(b, s, ch) ==
    IF ch = NoGuild
    THEN [bot |-> b, subs |-> s, at |-> "L133"]
    ELSE [bot |-> [b EXCEPT !.TargetGuildID = ch],
          subs |-> [member |-> s.member + 1,
                    handler |-> s.handler + 1,
                    inTime |-> ~TimerFired],
          at |-> "L146"]

\* trySubscribe: the new botState, the new call counts, and the return
\* statement taken ("L125" and "L146" return true, "L133" returns false).
\* ch is what session.Cabinet.Channel answers: the guild of the target
\* channel, or NoGuild for an error.  inTime notes whether the subscription
\* came before the startup deadline
TrySubscribe(b, s, ch) ==
    IF b.TargetGuildID # NoGuild
    THEN [bot |-> b, subs |-> s, at |-> "L125"]
    ELSE IF ch = NoGuild
    THEN [bot |-> b, subs |-> s, at |-> "L133"]
    ELSE [bot |-> [b EXCEPT !.TargetGuildID = ch],
          subs |-> [member |-> s.member + 1,
                    handler |-> s.handler + 1,
                    inTime |-> ~TimerFired],
          at |-> "L146"]

\* the ready case starting from a fresh botState, as a reconnect handler
\* that rebuilds its state would
OnReadyReset(b, id) ==
    [SelfID |-> id, TargetGuildID |-> NoGuild, LastAnnouncedTime |-> ZeroTime]

\* case ev := <-readyCh, line 159
OnReady(b, id) == [b EXCEPT !.SelfID = id]

Receiving == pc = "wait" /\ loop = "select"
Delivering == conn = "connected"

Lifecycle(kind, b) ==
    \E ch \in {NoGuild, TargetGuild} :
        LET r == TrySubscribe(b, subs, ch)
        IN  /\ bot' = r.bot
            /\ subs' = r.subs
            /\ last' = [NoEffect EXCEPT !.kind = kind, !.sub = r.at]
            /\ UNCHANGED <<probe, token, pc, exitCode, errLog, storeState, ctx, groupErr,
                       loop, conn, store, sent, now, ticks>>

ReadyCase ==
    /\ Receiving /\ Delivering
    /\ Lifecycle("ready", OnReady(bot, BotID))

ReadySupplementalCase ==
    /\ Receiving /\ Delivering
    /\ Lifecycle("readySupplemental", bot)

\* case <-guildCh without the trySubscribe call of line 175
GuildCreateIgnored ==
    /\ Receiving /\ Delivering
    /\ last' = [NoEffect EXCEPT !.kind = "guildCreate"]
    /\ UNCHANGED <<probe, token, pc, exitCode, errLog, storeState, ctx, groupErr, loop,
                   conn, bot, subs, store, sent, now, ticks>>

GuildCreateCase ==
    /\ Receiving /\ Delivering
    /\ Lifecycle("guildCreate", bot)

CtxDoneCase ==
    /\ Receiving
    /\ ctx # "live"
    /\ loop' = "ctxErr"
    /\ GroupFail("ctxErr")
    /\ last' = [NoEffect EXCEPT !.kind = "ctxDone"]
    /\ UNCHANGED <<probe, token, pc, exitCode, errLog, storeState, conn, bot, subs,
                   store, sent, now, ticks>>

\* case <-startupTimeout returning nil: the loop ends and the group never
\* learns of it
StartupTimeoutReturnsNil ==
    /\ Receiving
    /\ TimerFired
    /\ loop' = "timeout"
    /\ last' = [NoEffect EXCEPT !.kind = "timeout"]
    /\ UNCHANGED <<probe, token, pc, exitCode, errLog, storeState, ctx, groupErr, conn,
                   bot, subs, store, sent, now, ticks>>

StartupTimeoutCase ==
    /\ Receiving
    /\ TimerFired
    /\ loop' = "timeout"
    /\ GroupFail("timeout")
    /\ last' = [NoEffect EXCEPT !.kind = "timeout"]
    /\ UNCHANGED <<probe, token, pc, exitCode, errLog, storeState, conn, bot, subs,
                   store, sent, now, ticks>>

\* one record for all authors instead of one per author
StoreKeyShared(msg) == CHOOSE a \in Authors : TRUE

\* the key of an author's record in lastSentAuthors (ev.Author.ID)
StoreKey(msg) == msg.author

\* the edit case without the test of ok (line 244)
FoundAlways(id) == TRUE

\* the ok of lastSentAuthors.Load
Found(id) == id # NoMessage

Reply(e, text, failed) == [e EXCEPT !.reply = text, !.replyErr = failed]

\* case "announce" with line 218 moved before the send: a failed send counts
\* as the last announcement
AnnounceStampsAttempt(msg, e) ==
    IF RateLimited(bot)
    THEN /\ \E replyErr \in BOOLEAN : last' = Reply(e, "wait", replyErr)
         /\ UNCHANGED <<bot, store, sent>>
    ELSE \E sendOK \in BOOLEAN :
            IF ~sendOK
            THEN /\ \E replyErr \in BOOLEAN :
                        last' = Reply([e EXCEPT !.send = "err"], "internal", replyErr)
                 /\ bot' = [bot EXCEPT !.LastAnnouncedTime = now]
                 /\ UNCHANGED <<store, sent>>
            ELSE LET id == Len(sent) + 1
                 IN  \E replyErr \in BOOLEAN, storeOK \in BOOLEAN :
                        /\ sent' = Append(sent, [author |-> msg.author, stored |-> storeOK])
                        /\ bot' = [bot EXCEPT !.LastAnnouncedTime = now]
                        /\ store' = IF storeOK THEN [store EXCEPT ![StoreKey(msg)] = id] ELSE store
                        /\ last' = Reply([e EXCEPT !.send = "ok", !.sendID = id,
                                                   !.storeW = IF storeOK THEN "ok" ELSE "err"],
                                         "sent", replyErr)

\* case "announce" where a failed Store drops the record the author had
AnnounceForgetsOnStoreError(msg, e) ==
    IF RateLimited(bot)
    THEN /\ \E replyErr \in BOOLEAN : last' = Reply(e, "wait", replyErr)
         /\ UNCHANGED <<bot, store, sent>>
    ELSE \E sendOK \in BOOLEAN :
            IF ~sendOK
            THEN /\ \E replyErr \in BOOLEAN :
                        last' = Reply([e EXCEPT !.send = "err"], "internal", replyErr)
                 /\ bot' = bot
                 /\ UNCHANGED <<store, sent>>
            ELSE LET id == Len(sent) + 1
                 IN  \E replyErr \in BOOLEAN, storeOK \in BOOLEAN :
                        /\ sent' = Append(sent, [author |-> msg.author, stored |-> storeOK])
                        /\ bot' = [bot EXCEPT !.LastAnnouncedTime = now]
                        /\ store' = [store EXCEPT ![StoreKey(msg)] = IF storeOK THEN id ELSE NoMessage]
                        /\ last' = Reply([e EXCEPT !.send = "ok", !.sendID = id,
                                                   !.storeW = IF storeOK THEN "ok" ELSE "err"],
                                         "sent", replyErr)

\* case "announce" with a limit kept per author: an announce is held back
\* only when the last one sent was by the same author
AnnounceLimitPerAuthor(msg, e) ==
    IF RateLimited(bot) /\ sent # <<>> /\ sent[Len(sent)].author = msg.author
    THEN /\ \E replyErr \in BOOLEAN : last' = Reply(e, "wait", replyErr)
         /\ UNCHANGED <<bot, store, sent>>
    ELSE \E sendOK \in BOOLEAN :
            IF ~sendOK
            THEN /\ \E replyErr \in BOOLEAN :
                        last' = Reply([e EXCEPT !.send = "err"], "internal", replyErr)
                 /\ UNCHANGED <<bot, store, sent>>
            ELSE LET id == Len(sent) + 1
                 IN  \E replyErr \in BOOLEAN, storeOK \in BOOLEAN :
                        /\ sent' = Append(sent, [author |-> msg.author, stored |-> storeOK])
                        /\ bot' = [bot EXCEPT !.LastAnnouncedTime = now]
                        /\ store' = IF storeOK
                                    THEN [store EXCEPT ![StoreKey(msg)] = id]
                                    ELSE store
                        /\ last' = Reply([e EXCEPT !.send = "ok", !.sendID = id,
                                                   !.storeW = IF storeOK THEN "ok" ELSE "err"],
                                         "sent", replyErr)

\* case "announce" recording the author's message before knowing that the
\* send went through
AnnounceStoresBeforeSend(msg, e) ==
    IF RateLimited(bot)
    THEN /\ \E replyErr \in BOOLEAN : last' = Reply(e, "wait", replyErr)
         /\ UNCHANGED <<bot, store, sent>>
    ELSE \E sendOK \in BOOLEAN :
            IF ~sendOK
            THEN /\ \E replyErr \in BOOLEAN :
                        last' = Reply([e EXCEPT !.send = "err", !.storeW = "ok"],
                                      "internal", replyErr)
                 /\ store' = [store EXCEPT ![StoreKey(msg)] = Len(sent) + 1]
                 /\ UNCHANGED <<bot, sent>>
            ELSE LET id == Len(sent) + 1
                 IN  \E replyErr \in BOOLEAN, storeOK \in BOOLEAN :
                        /\ sent' = Append(sent, [author |-> msg.author, stored |-> storeOK])
                        /\ bot' = [bot EXCEPT !.LastAnnouncedTime = now]
                        /\ store' = IF storeOK
                                    THEN [store EXCEPT ![StoreKey(msg)] = id]
                                    ELSE store
                        /\ last' = Reply([e EXCEPT !.send = "ok", !.sendID = id,
                                                   !.storeW = IF storeOK THEN "ok" ELSE "err"],
                                         "sent", replyErr)

\* case "announce"
Announce(msg, e) ==
    IF RateLimited(bot)
    THEN /\ \E replyErr \in BOOLEAN : last' = Reply(e, "wait", replyErr)
         /\ UNCHANGED <<bot, store, sent>>
    ELSE \E sendOK \in BOOLEAN :
            IF ~sendOK
            THEN /\ \E replyErr \in BOOLEAN :
                        last' = Reply([e EXCEPT !.send = "err"], "internal", replyErr)
                 /\ UNCHANGED <<bot, store, sent>>
            ELSE LET id == Len(sent) + 1
                 IN  \E replyErr \in BOOLEAN, storeOK \in BOOLEAN :
                        /\ sent' = Append(sent, [author |-> msg.author, stored |-> storeOK])
                        /\ bot' = [bot EXCEPT !.LastAnnouncedTime = now]
                        /\ store' = IF storeOK
                                    THEN [store EXCEPT ![StoreKey(msg)] = id]
                                    ELSE store
                        /\ last' = Reply([e EXCEPT !.send = "ok", !.sendID = id,
                                                   !.storeW = IF storeOK THEN "ok" ELSE "err"],
                                         "sent", replyErr)

\* case "edit" looking for the author's latest sent message rather than the
\* stored one
EditTargetsLastSent(msg, e) ==
    /\ \E loadOK \in BOOLEAN :
          IF ~loadOK
          THEN \E replyErr \in BOOLEAN :
                  last' = Reply([e EXCEPT !.load = "err"], "internal", replyErr)
          ELSE LET mine == {i \in 1..Len(sent) : sent[i].author = msg.author}
                   lastSent == IF mine = {} THEN NoMessage
                               ELSE CHOOSE i \in mine : \A j \in mine : i >= j
                   f == [e EXCEPT !.load = "ok"]
               IN  IF ~Found(lastSent)
                   THEN \E replyErr \in BOOLEAN : last' = Reply(f, "notfound", replyErr)
                   ELSE \E editOK \in BOOLEAN :
                          IF editOK
                          THEN last' = [f EXCEPT !.edit = "ok", !.editID = lastSent]
                          ELSE \E replyErr \in BOOLEAN :
                                  last' = Reply([f EXCEPT !.edit = "err", !.editID = lastSent],
                                                "internal", replyErr)
    /\ UNCHANGED <<bot, store, sent>>

\* case "edit"
Edit(msg, e) ==
    /\ \E loadOK \in BOOLEAN :
          IF ~loadOK
          THEN \E replyErr \in BOOLEAN :
                  last' = Reply([e EXCEPT !.load = "err"], "internal", replyErr)
          ELSE LET lastSent == store[StoreKey(msg)]
                   f == [e EXCEPT !.load = "ok"]
               IN  IF ~Found(lastSent)
                   THEN \E replyErr \in BOOLEAN : last' = Reply(f, "notfound", replyErr)
                   ELSE \E editOK \in BOOLEAN :
                          IF editOK
                          THEN last' = [f EXCEPT !.edit = "ok", !.editID = lastSent]
                          ELSE \E replyErr \in BOOLEAN :
                                  last' = Reply([f EXCEPT !.edit = "err", !.editID = lastSent],
                                                "internal", replyErr)
    /\ UNCHANGED <<bot, store, sent>>

\* a default case that answers unknown commands
OtherCommandReplies(msg, e) ==
    /\ \E replyErr \in BOOLEAN : last' = Reply(e, "internal", replyErr)
    /\ UNCHANGED <<bot, store, sent>>

\* any other command: the switch has no default case
OtherCommand(msg, e) ==
    /\ last' = e
    /\ UNCHANGED <<bot, store, sent>>

\* case ev := <-msgCh where a failed send is returned from the loop instead
\* of being replied to and passed over
MsgCaseSendErrorReturns(msg) ==
    /\ Receiving /\ Delivering
    /\ subs.handler > 0
    /\ LET c == parseCommand(bot, msg)
           e == [NoEffect EXCEPT !.kind = "msg", !.author = msg.author,
                                 !.at = c.at, !.cmd = c.Command]
       IN  IF c.at # "L373"
           THEN last' = [e EXCEPT !.author = NoUser] /\ UNCHANGED <<bot, store, sent>>
           ELSE IF c.Command = announce THEN Announce(msg, e)
           ELSE IF c.Command = edit THEN Edit(msg, e)
           ELSE OtherCommand(msg, e)
    /\ IF last'.send = "err"
       THEN loop' = "failed" /\ GroupFail("command")
       ELSE UNCHANGED <<loop, ctx, groupErr>>
    /\ UNCHANGED <<probe, token, pc, exitCode, errLog, storeState, conn, subs, now, ticks>>

\* case ev := <-msgCh
MsgCase(msg) ==
    /\ Receiving /\ Delivering
    /\ subs.handler > 0
    /\ LET c == parseCommand(bot, msg)
           e == [NoEffect EXCEPT !.kind = "msg", !.author = msg.author,
                                 !.at = c.at, !.cmd = c.Command]
       IN  IF c.at # "L373"
           THEN last' = [e EXCEPT !.author = NoUser] /\ UNCHANGED <<bot, store, sent>>
           ELSE IF c.Command = announce THEN Announce(msg, e)
           ELSE IF c.Command = edit THEN Edit(msg, e)
           ELSE OtherCommand(msg, e)
    /\ UNCHANGED <<probe, token, pc, exitCode, errLog, storeState, ctx, groupErr, loop,
                   conn, subs, now, ticks>>

-----------------------------------------------------------------------------
(* The connection task and the environment *)

\* session.Connect returns a fatal transport error
ConnectFail ==
    /\ conn = "connected"
    /\ conn' = "fatal"
    /\ GroupFail("transport")
    /\ UNCHANGED <<probe, token, pc, exitCode, errLog, storeState, loop, bot, subs,
                   store, sent, now, ticks, last>>

\* session.Connect returns because its context is done
ConnectStop(ret) ==
    /\ conn = "connected"
    /\ ctx # "live"
    /\ conn' = ret
    /\ groupErr' = IF ret # "nil" /\ groupErr = "none" THEN ret ELSE groupErr
    /\ UNCHANGED <<probe, token, pc, exitCode, errLog, storeState, ctx, loop, bot,
                   subs, store, sent, now, ticks, last>>

\* os.Interrupt cancels the parent context
Signal ==
    /\ pc # "exit"
    /\ ctx = "live"
    /\ ctx' = "signal"
    /\ UNCHANGED <<probe, token, pc, exitCode, errLog, storeState, groupErr, loop, conn,
                   bot, subs, store, sent, now, ticks, last>>

Tick(d) ==
    /\ Receiving
    /\ ticks < MaxTicks
    /\ now' = now + d
    /\ ticks' = ticks + 1
    /\ UNCHANGED <<probe, token, pc, exitCode, errLog, storeState, ctx, groupErr, loop,
                   conn, bot, subs, store, sent, last>>

-----------------------------------------------------------------------------
(* run *)

\* the credential test logging the error without returning
RunCheckTokenFallsThrough ==
    /\ pc = "start"
    /\ pc' = "open"
    /\ errLog' = IF token = "" THEN "token" ELSE errLog
    /\ UNCHANGED <<probe, token, exitCode, storeState, ctx, groupErr, loop, conn, bot,
                   subs, store, sent, now, ticks, last>>

\* lines 75-79
RunCheckToken ==
    /\ pc = "start"
    /\ IF token = ""
       THEN pc' = "exit" /\ exitCode' = 1 /\ errLog' = "token"
       ELSE pc' = "open" /\ UNCHANGED <<exitCode, errLog>>
    /\ UNCHANGED <<probe, token, storeState, ctx, groupErr, loop, conn, bot, subs,
                   store, sent, now, ticks, last>>

\* lines 85-94
RunOpenStore(ok) ==
    /\ pc = "open"
    /\ IF ok
       THEN pc' = "spawn" /\ storeState' = "open" /\ UNCHANGED <<exitCode, errLog>>
       ELSE pc' = "exit" /\ storeState' = "failed" /\ exitCode' = 1 /\ errLog' = "store"
    /\ UNCHANGED <<probe, token, ctx, groupErr, loop, conn, bot, subs, store,
                   sent, now, ticks, last>>

\* the two errg.Go calls
RunSpawn ==
    /\ pc = "spawn"
    /\ pc' = "wait"
    /\ loop' = "select"
    /\ conn' = "connected"
    /\ UNCHANGED <<probe, token, exitCode, errLog, storeState, ctx, groupErr, bot,
                   subs, store, sent, now, ticks, last>>

\* errg.Wait and the return
RunWait ==
    /\ pc = "wait"
    /\ loop \notin {"idle", "select"}
    /\ conn \notin {"idle", "connected"}
    /\ pc' = "exit"
    /\ IF groupErr # "none"
       THEN exitCode' = 1 /\ errLog' = "stopped"
       ELSE exitCode' = 0 /\ UNCHANGED errLog
    /\ UNCHANGED <<probe, token, storeState, ctx, groupErr, loop, conn, bot, subs,
                   store, sent, now, ticks, last>>

-----------------------------------------------------------------------------

Init ==
    /\ token \in {"", "token"}
    /\ pc = "start"
    /\ exitCode = NoExit
    /\ errLog = ""
    /\ storeState = "unopened"
    /\ ctx = "live"
    /\ groupErr = "none"
    /\ loop = "idle"
    /\ conn = "idle"
    /\ bot = InitBot
    /\ subs = [member |-> 0, handler |-> 0, inTime |-> FALSE]
    /\ store = [a \in Authors |-> NoMessage]
    /\ sent = <<>>
    /\ now = 0
    /\ ticks = 0
    /\ last = NoEffect
    /\ probe = NoProbe

Next ==
    \/ RunCheckToken
    \/ \E ok \in BOOLEAN : RunOpenStore(ok)
    \/ RunSpawn
    \/ RunWait
    \/ ReadyCase
    \/ ReadySupplementalCase
    \/ GuildCreateCase
    \/ CtxDoneCase
    \/ StartupTimeoutCase
    \/ \E msg \in Messages : MsgCase(msg)
    \/ ConnectFail
    \/ \E ret \in {"nil", "ctxErr"} : ConnectStop(ret)
    \/ Signal
    \/ \E d \in TickSteps : Tick(d)

Spec == Init /\ [][Next]_vars

\* Spec with the scheduling the code gives: a select whose timer channel is
\* ready does not pass it over forever (the runtime picks among the ready
\* cases at random), a cancelled context is seen by the loop, session.Connect
\* returns once its context is done, and run, waiting in errg.Wait, goes on
\* when both tasks have returned
FairSpec ==
    /\ Spec
    /\ WF_vars(StartupTimeoutCase)
    /\ WF_vars(CtxDoneCase)
    /\ WF_vars(\E ret \in {"nil", "ctxErr"} : ConnectStop(ret))
    /\ WF_vars(RunWait)

-----------------------------------------------------------------------------
(* parseCommand on its own: the loop is subscribed and waiting, a message of
   ParseMessages arrives, and parseCommand is applied to it *)

\* the botStates with which the loop can receive a message: the guild is
\* recorded, the ready event may not have come yet
ParseBots ==
    {[InitBot EXCEPT !.SelfID = id, !.TargetGuildID = TargetGuild] : id \in {NoUser, BotID}}

ParseInit ==
    /\ token = "token"
    /\ pc = "wait"
    /\ exitCode = NoExit
    /\ errLog = ""
    /\ storeState = "open"
    /\ ctx = "live"
    /\ groupErr = "none"
    /\ loop = "select"
    /\ conn = "connected"
    /\ bot \in ParseBots
    /\ subs = [member |-> 1, handler |-> 1, inTime |-> TRUE]
    /\ store = [a \in Authors |-> NoMessage]
    /\ sent = <<>>
    /\ now = 0
    /\ ticks = 0
    /\ last = NoEffect
    /\ probe \in [msg : ParseMessages, out : {NoParse}]

\* line 178
ParseApply ==
    /\ probe.out = NoParse
    /\ probe' = [probe EXCEPT !.out = parseCommand(bot, probe.msg)]
    /\ UNCHANGED <<token, pc, exitCode, errLog, storeState, ctx, groupErr, loop,
                   conn, bot, subs, store, sent, now, ticks, last>>

ParseNext == ParseApply

SpecParse == ParseInit /\ [][ParseNext]_vars

-----------------------------------------------------------------------------
(* Steps and observations the properties speak of *)

\* a step that is one iteration of the loop that goes back to the select:
\* every other step moves pc, loop, conn, ctx or the clock
LoopStep == Receiving /\ UNCHANGED <<pc, loop, conn, ctx, groupErr, now, ticks>>

\* the iteration received a message
MsgStep == LoopStep /\ last'.kind = "msg"

\* the iteration dispatched the parsed command c
Dispatched(c) == MsgStep /\ last'.at = "L373" /\ last'.cmd = c

\* the latest iteration dispatched the parsed command c
LastDispatched(c) == last.kind = "msg" /\ last.at = "L373" /\ last.cmd = c

\* nothing was sent, edited, replied, read or written
Quiet(e) ==
    /\ e.send = "none" /\ e.edit = "none" /\ e.reply = "none"
    /\ e.load = "none" /\ e.storeW = "none"

\* the id of a's latest announce that was sent and stored, from the log of
\* sent messages
LastStoredOf(a) ==
    LET ids == {i \in 1..Len(sent) : sent[i].author = a /\ sent[i].stored}
    IN  IF ids = {} THEN NoMessage ELSE CHOOSE i \in ids : \A j \in ids : i >= j

-----------------------------------------------------------------------------
(* Properties *)

\* C1: when an announce is dispatched, the send to the target channel is made
\* exactly when the time since the last successful announce is at least
\* MinAnnounceTimeGap; otherwise the author gets the wait reply, nothing is
\* sent, and neither LastAnnouncedTime nor the store changes.
C1_RateLimitDecision ==
    [][Dispatched(announce) =>
        /\ (last'.send # "none") <=> (Since(bot.LastAnnouncedTime) >= MinAnnounceTimeGap)
        /\ Since(bot.LastAnnouncedTime) < MinAnnounceTimeGap =>
              /\ last'.reply = "wait"
              /\ last'.send = "none"
              /\ sent' = sent
              /\ bot' = bot
              /\ store' = store]_vars

\* a second announce allowed exactly MinAnnounceTimeGap after the first
C1_Witness ==
    /\ LastDispatched(announce)
    /\ last.send = "ok"
    /\ Len(sent) = 2
    /\ now = MinAnnounceTimeGap
    /\ bot.LastAnnouncedTime = now

C3_NotFoundReplyAlways ==
    (LastDispatched(edit) /\ store[last.author] = NoMessage) =>
        (last.reply = "notfound" /\ last.edit = "none")

\* C3, amended: an edit by an author without a record calls no edit and
\* changes neither the store nor the botState; the reply is the not-found
\* reply when the load answers and the internal-error reply when it fails.
C3_EditWithoutRecord ==
    [][(Dispatched(edit) /\ store[last'.author] = NoMessage) =>
        /\ last'.edit = "none"
        /\ last'.load \in {"ok", "err"}
        /\ last'.reply = IF last'.load = "ok" THEN "notfound" ELSE "internal"
        /\ store' = store
        /\ bot' = bot
        /\ sent' = sent]_vars

\* the not-found reply to an author without a record, while another author
\* has one
C3_Witness ==
    /\ LastDispatched(edit)
    /\ last.reply = "notfound"
    /\ store[last.author] = NoMessage
    /\ \E a \in Authors : store[a] # NoMessage

\* C4: the loop ends with the startup-failure error only if no subscription
\* succeeded before the startup deadline; a loop that subscribed in time
\* stays in the select until cancellation or a transport error.
C4_ReadyIsStable == subs.inTime => loop # "timeout"

\* a fatal error as the exit codes' description lists them
FatalError ==
    \/ token = ""
    \/ storeState = "failed"
    \/ loop = "timeout"
    \/ conn = "fatal"

\* C5: run returns 1 exactly when a fatal error occurred, and 0 when it was
\* stopped by the cancellation signal alone.
C5_ExitCodeReflectsCause == pc = "exit" => (exitCode = 1 <=> FatalError)

\* C6: Subscribe and AddSyncHandler are called at most once, and an attempt
\* made once the guild is recorded changes nothing and returns true.
C6_SubscribeOnce ==
    /\ [](subs.member <= 1 /\ subs.handler <= 1)
    /\ [][(LoopStep /\ last'.kind \in {"ready", "readySupplemental", "guildCreate"}
                    /\ bot.TargetGuildID # NoGuild) =>
            (subs' = subs /\ last'.sub = "L125")]_vars

\* an attempt that found the guild already recorded
C6_Witness ==
    /\ last.kind = "guildCreate"
    /\ last.sub = "L125"
    /\ subs.member = 1
    /\ subs.handler = 1

\* C7: once set, TargetGuildID never changes.
C7_TargetGuildWriteOnce ==
    [][bot.TargetGuildID # NoGuild => bot'.TargetGuildID = bot.TargetGuildID]_vars

\* the guild is recorded and a ready event, an announce and the startup
\* deadline have come after it
C7_Witness ==
    /\ bot.TargetGuildID = TargetGuild
    /\ bot.SelfID = BotID
    /\ last.kind = "ready"
    /\ Len(sent) > 0
    /\ TimerFired

\* the message does not mention the bot, or is not from a member of the
\* target guild, or its author holds no allowed role
NonMatching(m) ==
    \/ ~m.mentions
    \/ ~m.member
    \/ m.guild # bot.TargetGuildID
    \/ m.roles \cap AllowedRoleIDs = {}

\* C8: parseCommand returns no command for a non-matching message, and an
\* iteration that got no command sends, edits, replies, reads and writes
\* nothing and leaves the botState as it was.
C8_NonMatchingIgnored ==
    /\ [](\A m \in Messages :
            NonMatching(m) => parseCommand(bot, m).at \in {"L327", "L332", "L339"})
    /\ [][(MsgStep /\ last'.at # "L373") =>
            /\ Quiet(last')
            /\ bot' = bot
            /\ store' = store
            /\ sent' = sent
            /\ subs' = subs]_vars

\* a message without the mention was dropped while the store holds a record
C8_Witness ==
    /\ last.kind = "msg"
    /\ last.at = "L332"
    /\ Quiet(last)
    /\ \E a \in Authors : store[a] # NoMessage

\* C9: a parsed command other than announce and edit has no effect, and the
\* loop goes on.
C9_UnknownCommandIgnored ==
    [][(MsgStep /\ last'.at = "L373" /\ last'.cmd \notin {announce, edit}) =>
        /\ Quiet(last')
        /\ bot' = bot
        /\ store' = store
        /\ sent' = sent
        /\ subs' = subs
        /\ loop' = "select"]_vars

\* the command "do" was parsed and dropped
C9_Witness ==
    /\ last.kind = "msg"
    /\ last.at = "L373"
    /\ last.cmd = <<"d", "o">>
    /\ Quiet(last)
    /\ loop = "select"

\* C10: with the credential unset, run logs the missing variable and returns
\* 1 without opening the store, starting the loop or connecting.
C10_MissingTokenFatal ==
    token = "" =>
        /\ pc \in {"start", "exit"}
        /\ storeState = "unopened"
        /\ loop = "idle"
        /\ conn = "idle"
        /\ pc = "exit" => (exitCode = 1 /\ errLog = "token")

\* run has returned for want of the credential
C10_Witness == token = "" /\ pc = "exit" /\ exitCode = 1

-----------------------------------------------------------------------------
(* Claims about parseCommand on its own, checked under SpecParse *)

\* the handler the switch of line 197 selects for a command
Handler(command) ==
    IF command = announce THEN "announce"
    ELSE IF command = edit THEN "edit"
    ELSE "none"

\* two contents with a newline, the same text after it, and headers that are
\* equal but for the case of their letters
SameButCase(c1, c2) ==
    LET k1 == Cut(c1)
        k2 == Cut(c2)
    IN  /\ k1.found /\ k2.found
        /\ k1.after = k2.after
        /\ Len(k1.before) = Len(k2.before)
        /\ \A i \in 1..Len(k1.before) :
               \/ k1.before[i] = k2.before[i]
               \/ \E j \in 1..Len(UpperCase) :
                      {k1.before[i], k2.before[i]} = {UpperCase[j], LowerCase[j]}

\* two messages with the same gate fields whose contents are SameButCase
CaseVariants(m1, m2) ==
    /\ m1.author = m2.author
    /\ m1.member = m2.member
    /\ m1.guild = m2.guild
    /\ m1.mentions = m2.mentions
    /\ m1.roles = m2.roles
    /\ SameButCase(m1.content, m2.content)

\* C11: two messages that pass the same guild, mention and role checks and
\* differ only in the letter case of the header are parsed to the same command
\* string and the same body, leave parseCommand at the same return, and select
\* the same handler.
C11_CaseInsensitive ==
    probe.out # NoParse =>
        \A m2 \in ParseMessages :
            CaseVariants(probe.msg, m2) =>
                LET c2 == parseCommand(bot, m2)
                IN  /\ c2.at = probe.out.at
                    /\ c2.Command = probe.out.Command
                    /\ c2.Body = probe.out.Body
                    /\ Handler(c2.Command) = Handler(probe.out.Command)

\* "<@7> ANNOUNCE\nx" was parsed to the command "announce", as its lower-case
\* variant is
C11_Witness ==
    /\ probe.out.at = "L373"
    /\ probe.out.Command = announce
    /\ Cut(probe.msg.content).before # ToLower(Cut(probe.msg.content).before)
    /\ \E m2 \in ParseMessages :
           /\ m2 # probe.msg
           /\ CaseVariants(probe.msg, m2)
           /\ parseCommand(bot, m2).Command = announce

\* the header and the body of a message: the text before and after its first
\* newline
HeaderOf(m) == Cut(m.content).before
BodyOf(m) == Cut(m.content).after

\* the header without a leading self-mention and without surrounding whitespace
StrippedHeader(b, m) == TrimSpace(TrimPrefix(HeaderOf(m), Mention(b.SelfID)))

\* the six listed preconditions
SixPreconditions(b, m) ==
    /\ m.member /\ m.guild = b.TargetGuildID
    /\ m.mentions
    /\ m.roles \cap AllowedRoleIDs # {}
    /\ Cut(m.content).found
    /\ StrippedHeader(b, m) # <<>>
    /\ BodyOf(m) # <<>>

\* what is returned when a command is returned
ReturnedAsListed(b, m, out) ==
    /\ out.Command = ToLower(StrippedHeader(b, m))
    /\ out.Body = BodyOf(m)

\* C16 as stated: parseCommand returns a command exactly when the six listed
\* preconditions hold, and then the command is the stripped header lower-cased
\* and the body is the text after the first newline, untrimmed.
C16_SixPreconditionsExactly ==
    probe.out # NoParse =>
        /\ probe.out.at = "L373" <=> SixPreconditions(bot, probe.msg)
        /\ probe.out.at = "L373" => ReturnedAsListed(bot, probe.msg, probe.out)

\* C16 amended: parseCommand returns a command exactly when the six listed
\* preconditions hold and the header begins with the self-mention token; then
\* the command is the stripped header lower-cased and the body is the text
\* after the first newline, untrimmed.
C16_SevenPreconditionsExactly ==
    probe.out # NoParse =>
        /\ probe.out.at = "L373" <=>
               /\ SixPreconditions(bot, probe.msg)
               /\ HasPrefix(HeaderOf(probe.msg), Mention(bot.SelfID))
        /\ probe.out.at = "L373" => ReturnedAsListed(bot, probe.msg, probe.out)

\* "<@7>EDIT\n " was accepted: the command is "edit", the body is one space
C16_Witness ==
    /\ probe.out.at = "L373"
    /\ HeaderOf(probe.msg) = Mention(BotID) \o <<"E", "D", "I", "T">>
    /\ probe.out.Command = edit
    /\ probe.out.Body = <<" ">>

-----------------------------------------------------------------------------
(* Properties of the failure paths *)

\* C12: when an allowed announce is dispatched and the send to the target
\* channel fails, the author gets the internal-error reply and no success
\* reply, LastAnnouncedTime is not updated (the failed attempt does not limit
\* the next announce), nothing is recorded as sent and the store is not
\* written.
C12_SendFailureLeavesState ==
    [][(Dispatched(announce) /\ last'.send = "err") =>
        /\ last'.reply = "internal"
        /\ last'.reply # "sent"
        /\ bot'.LastAnnouncedTime = bot.LastAnnouncedTime
        /\ bot' = bot
        /\ last'.storeW = "none"
        /\ store' = store
        /\ sent' = sent]_vars

\* a send failed four hours after the one announcement that was sent, and the
\* time of that announcement still stands
C12_Witness ==
    /\ LastDispatched(announce)
    /\ last.send = "err"
    /\ last.reply = "internal"
    /\ Len(sent) = 1
    /\ now = MinAnnounceTimeGap
    /\ bot.LastAnnouncedTime = 0

\* C13: when the send of an announce succeeds and the Store that follows
\* fails, the announcement stays sent, LastAnnouncedTime is updated, the
\* author got the success reply and no internal-error reply, the store keeps
\* what it held (the author's previous record included), and the loop goes
\* back to its select.
C13_StoreFailureNoRollback ==
    [][(Dispatched(announce) /\ last'.send = "ok" /\ last'.storeW = "err") =>
        /\ sent' = Append(sent, [author |-> last'.author, stored |-> FALSE])
        /\ last'.sendID = Len(sent')
        /\ bot'.LastAnnouncedTime = now
        /\ last'.reply = "sent"
        /\ last'.reply # "internal"
        /\ store' = store
        /\ loop' = "select"
        /\ pc' = "wait"]_vars

\* the second announcement of an author was sent and not stored: the store
\* still holds the first
C13_Witness ==
    /\ LastDispatched(announce)
    /\ last.send = "ok"
    /\ last.storeW = "err"
    /\ last.reply = "sent"
    /\ last.sendID = 2
    /\ store[last.author] = 1
    /\ sent[1].author = last.author
    /\ loop = "select"

\* C14: when an author's announce was sent and its Store failed, the edit by
\* that author that comes next gets the not-found reply and no edit is called,
\* whatever the author announced before.
C14_EditAfterFailedStoreNotFound ==
    [][(/\ LastDispatched(announce)
        /\ last.send = "ok"
        /\ last.storeW = "err"
        /\ Dispatched(edit)
        /\ last'.author = last.author) =>
            /\ last'.reply = "notfound"
            /\ last'.edit = "none"]_vars

\* an edit is dispatched for the author whose announce, sent and not stored,
\* was the iteration before
EditAfterFailedStore ==
    /\ LastDispatched(announce)
    /\ last.send = "ok"
    /\ last.storeW = "err"
    /\ Dispatched(edit)
    /\ last'.author = last.author

\* C14 amended: when an author's announce was sent and its Store failed, the
\* edit by that author that comes next never touches that announcement: with
\* no older record and a Load that answers it gets the not-found reply and no
\* edit is called; with an older record the edit is called on that older
\* message; when the Load fails it gets the internal-error reply and no edit
\* is called.
C14_EditAfterFailedStoreUsesRecord ==
    [][EditAfterFailedStore =>
        LET older == store[last.author]
        IN  /\ last'.editID # last.sendID
            /\ last'.load = "err" =>
                  (last'.reply = "internal" /\ last'.edit = "none")
            /\ (last'.load = "ok" /\ older = NoMessage) =>
                  (last'.reply = "notfound" /\ last'.edit = "none")
            /\ (last'.load = "ok" /\ older # NoMessage) =>
                  /\ last'.edit # "none"
                  /\ last'.editID = older
                  /\ older < last.sendID
                  /\ sent[older].author = last.author
                  /\ last'.reply # "notfound"
            /\ store' = store
            /\ sent' = sent
            /\ bot' = bot]_vars

\* an author's second announcement was sent and not stored, and the edit that
\* followed was called on the first
C14_Witness ==
    /\ LastDispatched(edit)
    /\ last.edit = "ok"
    /\ last.editID = 1
    /\ Len(sent) = 2
    /\ sent[1] = [author |-> last.author, stored |-> TRUE]
    /\ sent[2] = [author |-> last.author, stored |-> FALSE]
    /\ store[last.author] = 1

\* a call made while handling a command failed
Failed(e) ==
    \/ e.send = "err"
    \/ e.edit = "err"
    \/ e.load = "err"
    \/ e.storeW = "err"
    \/ e.replyErr

\* C15: a step that handles a command in which a send, an edit, a reply, a
\* Load or a Store fails leaves the loop at its select with the run still
\* waiting on it: no error reaches the group, the context, the connection, the
\* subscription, the identity and the guild of the bot are as before, and the
\* loop is ready to receive and dispatch the next message.
C15_FailuresKeepLoop ==
    [][(last' # last /\ last'.kind = "msg" /\ Failed(last')) =>
        /\ loop = "select" /\ loop' = "select"
        /\ pc' = "wait"
        /\ UNCHANGED <<ctx, groupErr, conn, subs, exitCode, errLog, storeState>>
        /\ bot'.SelfID = bot.SelfID
        /\ bot'.TargetGuildID = bot.TargetGuildID
        /\ conn' = "connected"
        /\ subs'.handler > 0]_vars

\* an announce was sent and its Store failed; later the reply to another
\* command failed, and the loop is still at its select
C15_Witness ==
    /\ Len(sent) = 1
    /\ ~sent[1].stored
    /\ LastDispatched(edit)
    /\ last.load = "ok"
    /\ last.reply = "notfound"
    /\ last.replyErr
    /\ loop = "select"
    /\ pc = "wait"

-----------------------------------------------------------------------------
(* Properties of startup and subscription *)

\* C17: when the startup deadline has passed with nothing subscribed, the loop
\* ends with the startup-failure error unless the run is cancelled first; the
\* loop that has ended so handles no further event and makes no further
\* subscription attempt, its error reaches the group and cancels the context,
\* and run returns 1.
C17_StartupTimeoutFatal ==
    /\ [][(loop' = "timeout" /\ subs.handler = 0) =>
            /\ last'.kind = "timeout"
            /\ subs' = subs
            /\ bot' = bot
            /\ store' = store
            /\ sent' = sent
            /\ groupErr' # "none"
            /\ groupErr = "none" => groupErr' = "timeout"
            /\ ctx' # "live"]_vars
    /\ [](loop = "timeout" => pc \in {"wait", "exit"})
    /\ []((loop = "timeout" /\ pc = "exit") => (exitCode = 1 /\ errLog = "stopped"))
    /\ (Receiving /\ TimerFired /\ subs.handler = 0) ~> (loop = "timeout" \/ ctx # "live")
    /\ (loop = "timeout" /\ subs.handler = 0) ~> (pc = "exit" /\ exitCode = 1)

\* run has returned 1 after the loop ended with the startup-failure error,
\* nothing having been subscribed
C17_Witness ==
    /\ loop = "timeout"
    /\ subs.handler = 0
    /\ bot.TargetGuildID = NoGuild
    /\ groupErr = "timeout"
    /\ last.kind = "timeout"
    /\ pc = "exit"
    /\ exitCode = 1

\* C18: while no guild is recorded, every ready, ready-supplemental and
\* guild-create event makes a subscription attempt that resolves the target
\* channel; an attempt whose resolution fails leaves TargetGuildID unset and
\* registers nothing, and the attempt at which the channel resolves records
\* the guild, subscribes to its members and registers the message handler.
C18_SubscribeRetried ==
    [][(/\ LoopStep
        /\ last'.kind \in {"ready", "readySupplemental", "guildCreate"}
        /\ bot.TargetGuildID = NoGuild) =>
            /\ last'.sub \in {"L133", "L146"}
            /\ last'.sub = "L133" =>
                  /\ bot'.TargetGuildID = NoGuild
                  /\ subs' = subs
            /\ last'.sub = "L146" =>
                  /\ bot'.TargetGuildID = TargetGuild
                  /\ subs'.member = subs.member + 1
                  /\ subs'.handler = subs.handler + 1
                  /\ subs'.inTime = ~TimerFired]_vars

\* the ready event came and its attempt failed; a guild-create event then
\* subscribed, before the deadline
C18_Witness ==
    /\ last.kind = "guildCreate"
    /\ last.sub = "L146"
    /\ bot.SelfID = BotID
    /\ bot.TargetGuildID = TargetGuild
    /\ subs = [member |-> 1, handler |-> 1, inTime |-> TRUE]

-----------------------------------------------------------------------------
(* Properties of the rate limit and of the store *)

\* C19: LastAnnouncedTime is the time of the latest successful send, whoever
\* the author: it changes only in a step that sends, and is then the time of
\* that step.  A step that sends after an earlier send comes at least
\* MinAnnounceTimeGap after the time recorded for the earlier one, so any two
\* successful sends, by the same author or not, are that far apart.  An edit
\* is dispatched whatever the time since the last announcement and leaves
\* LastAnnouncedTime alone.
C19_RateLimitGlobal ==
    /\ [](sent = <<>> <=> bot.LastAnnouncedTime = ZeroTime)
    /\ [](sent # <<>> => (bot.LastAnnouncedTime >= 0 /\ bot.LastAnnouncedTime <= now))
    /\ [][/\ sent' # sent =>
                /\ sent # <<>> => now - bot.LastAnnouncedTime >= MinAnnounceTimeGap
                /\ bot'.LastAnnouncedTime = now
                /\ now' = now
          /\ bot'.LastAnnouncedTime # bot.LastAnnouncedTime =>
                (Len(sent') = Len(sent) + 1 /\ LastDispatched(announce)')
          /\ Dispatched(edit) =>
                /\ bot'.LastAnnouncedTime = bot.LastAnnouncedTime
                /\ last'.reply # "wait"
                /\ last'.load # "none"]_vars

\* two authors announced, the second exactly MinAnnounceTimeGap after the
\* first
C19_Witness ==
    /\ Len(sent) = 2
    /\ sent[1].author # sent[2].author
    /\ bot.LastAnnouncedTime = MinAnnounceTimeGap
    /\ now = MinAnnounceTimeGap

\* C20: a record of the store is the id of a message the bot sent while
\* handling an announce of the record's author, and of the latest such message
\* that was stored.  The store changes only in a step that dispatches an
\* announce whose send and Store both succeed; that step writes the id just
\* sent under the author's own key and leaves every other key alone.  No
\* record is ever removed, and a step that handles anything else (an edit, a
\* rate-limited announce, a failed send, an unknown command, a message that is
\* no command) does not write.
C20_StoreOnlyFromAnnounce ==
    /\ [](\A a \in Authors :
            store[a] # NoMessage =>
                /\ store[a] \in 1..Len(sent)
                /\ sent[store[a]].author = a
                /\ sent[store[a]].stored
                /\ store[a] = LastStoredOf(a))
    /\ [][/\ store' # store =>
                /\ Dispatched(announce)
                /\ last'.send = "ok"
                /\ last'.storeW = "ok"
                /\ sent' = Append(sent, [author |-> last'.author, stored |-> TRUE])
                /\ store'[last'.author] = Len(sent')
                /\ \A a \in Authors \ {last'.author} : store'[a] = store[a]
          /\ \A a \in Authors : store[a] # NoMessage => store'[a] # NoMessage
          /\ (MsgStep /\ ~(Dispatched(announce) /\ last'.send = "ok")) =>
                (store' = store /\ last'.storeW = "none")]_vars

\* an author's second announcement overwrote the record of the first, the
\* other author has none, and the edit handled last wrote nothing
C20_Witness ==
    /\ LastDispatched(edit)
    /\ last.edit = "ok"
    /\ last.editID = 2
    /\ store[last.author] = 2
    /\ sent[1] = [author |-> last.author, stored |-> TRUE]
    /\ sent[2] = [author |-> last.author, stored |-> TRUE]
    /\ \A a \in Authors \ {last.author} : store[a] = NoMessage

====
